---- MODULE Spec2Model ----
(***************************************************************************)
(* Model of the websocket transport of aiotieba.Client                     *)
(* (src/aiotieba/client.py): the 9-byte frame codec, the request/response  *)
(* correlation table of WebsocketResponse, the dispatcher task and the     *)
(* handshake performed by _init_websocket before send_msg.                 *)
(***************************************************************************)
EXTENDS Integers, Sequences, FiniteSets, TLC

VARIABLES
    codec,            \* the codec harness: inputs, packed frame, unpacked result
    signer,           \* the form lists handed to pack_form and what it returned
    browser,          \* the legacy Browser: its socket, connections and send_msg call
    api,              \* the login state, the forum-id cache and the calls that use them
    clock,            \* int(time.time()) as last read
    ids,              \* the req_id of every WebsocketResponse created, in creation order
    expired,          \* the numbers of the objects whose wait in read() timed out
    resp,             \* the WebsocketResponse objects their callers still hold, by number
    wait_dict,        \* WebsocketResponse.ws_res_wait_dict: req_id -> object number
    websocket,        \* Client.websocket: index in conns, 0 for None
    conns,            \* the socket connections opened so far
    _ws_dispatcher,   \* Client._ws_dispatcher: index in tasks, 0 for None
    tasks,            \* the dispatcher tasks created so far
    _ws_password,     \* Client._ws_password, 0 for None
    _ws_aes_chiper,   \* key of Client._ws_aes_chiper, -1 for None
    session_closed,   \* Client.close() was called
    pc,               \* where each caller of send_msg is suspended
    loc,              \* each caller's local variables
    calls             \* number of send_msg calls started

clientVars == <<clock, ids, expired, resp, wait_dict, websocket, conns, _ws_dispatcher, tasks,
                _ws_password, _ws_aes_chiper, session_closed, pc, loc, calls>>

vars == <<codec, signer, browser, api, clientVars>>

(***************************************************************************)
(* Byte strings are sequences of integers 0..255.                          *)
(***************************************************************************)
SeqsUpTo(S, n) == UNION {[1..k -> S] : k \in 0..n}

Repeat(b, n) == [i \in 1..n |-> b]

\* b[i:]
Tail0(s, i) == SubSeq(s, i + 1, Len(s))

\* four bytes with the least significant first
ToBytes4Little(n) ==
    <<n % 256, (n \div 256) % 256, (n \div 65536) % 256, (n \div 16777216) % 256>>

\* int.to_bytes(4, 'big')
ToBytes4(n) ==
    <<(n \div 16777216) % 256, (n \div 65536) % 256, (n \div 256) % 256, n % 256>>

\* b[lo:hi] with 0 <= lo <= hi: a slice never fails, it is cut to the length of b
Slice(b, lo, hi) == SubSeq(b, lo + 1, IF hi < Len(b) THEN hi ELSE Len(b))

\* int.from_bytes(b, 'big')
RECURSIVE FromBytes(_)
FromBytes(b) ==
    IF b = <<>> THEN 0 ELSE FromBytes(SubSeq(b, 1, Len(b) - 1)) * 256 + b[Len(b)]

\* AES.block_size
BlockSize == 16

(***************************************************************************)
(* gzip.compress / gzip.decompress: a member is magic, method, a stored    *)
(* body (length, transformed data), a checksum and the size, whose high    *)
(* byte is zero.  Decompression checks all of it, skips zero padding after *)
(* a member and requires anything else that follows to be a member too.    *)
(***************************************************************************)
RECURSIVE ByteSum(_)
ByteSum(p) == IF p = <<>> THEN 0 ELSE (p[1] + ByteSum(Tail(p))) % 256

GzipOverhead == 8

GzipCompress(p) ==
    <<31, 139, 8, Len(p)>> \o [i \in 1..Len(p) |-> 255 - p[i]]
        \o <<ByteSum(p), Len(p) % 256, 0, 0>>

RECURSIVE LStripZero(_)
LStripZero(s) == IF s # <<>> /\ s[1] = 0 THEN LStripZero(Tail(s)) ELSE s

\* [ok |-> BOOLEAN, data |-> bytes]
RECURSIVE GzipDecompress(_)
GzipDecompress(s) ==
    LET bad == [ok |-> FALSE, data |-> <<>>] IN
    IF Len(s) < GzipOverhead \/ SubSeq(s, 1, 3) # <<31, 139, 8>> THEN bad
    ELSE LET n == s[4] IN
         IF Len(s) < GzipOverhead + n THEN bad
         ELSE LET p    == [i \in 1..n |-> 255 - s[4 + i]]
                  tl   == SubSeq(s, 5 + n, 8 + n)
                  rest == LStripZero(Tail0(s, GzipOverhead + n))
              IN IF tl # <<ByteSum(p), n % 256, 0, 0>> THEN bad
                 ELSE IF rest = <<>> THEN [ok |-> TRUE, data |-> p]
                 ELSE LET more == GzipDecompress(rest) IN
                      IF more.ok THEN [ok |-> TRUE, data |-> p \o more.data]
                      ELSE bad

(***************************************************************************)
(* AES in ECB mode: a keyed permutation of each 16-byte block; data whose  *)
(* length is no multiple of the block size is refused (ValueError).        *)
(***************************************************************************)
\* hashlib.pbkdf2_hmac('sha1', password, salt, 5, 32)
DeriveKey(password) == (password * 37 + 11) % 256

BlockMirror(i) == ((i - 1) \div BlockSize) * BlockSize + (BlockSize - ((i - 1) % BlockSize))

AesEncrypt(s, key) == [i \in 1..Len(s) |-> (s[BlockMirror(i)] + key) % 256]

AesDecrypt(s, key) == [i \in 1..Len(s) |-> (s[BlockMirror(i)] + 256 - key) % 256]

Aligned(s) == Len(s) % BlockSize = 0

\* bytes.rstrip(chars) with chars a byte string of length 0 or 1
RECURSIVE RStrip(_, _)
RStrip(s, chars) ==
    IF s # <<>> /\ chars # <<>> /\ s[Len(s)] = chars[1]
    THEN RStrip(SubSeq(s, 1, Len(s) - 1), chars)
    ELSE s

\* ws_bytes[-2:-1]
SecondLast(s) == IF Len(s) < 2 THEN <<>> ELSE <<s[Len(s) - 1]>>

(***************************************************************************)
(* Client._pack_ws_bytes                                                   *)
(***************************************************************************)
BoolInt(b) == IF b THEN 1 ELSE 0

PackFlag(need_gzip, need_encrypt) == 8 + 128 * BoolInt(need_gzip) + 64 * BoolInt(need_encrypt)

\* padding that adds nothing to a length that is a multiple of the block size
PackPadToFit(ws_bytes) ==
    LET pad_num == (BlockSize - (Len(ws_bytes) % BlockSize)) % BlockSize
    IN  ws_bytes \o Repeat(pad_num, pad_num)

\* pad_num = AES.block_size - (len(ws_bytes) % AES.block_size)
\* ws_bytes += pad_num.to_bytes(1, 'big') * pad_num
PackPad(ws_bytes) ==
    LET pad_num == BlockSize - (Len(ws_bytes) % BlockSize)
    IN  ws_bytes \o Repeat(pad_num, pad_num)

_pack_ws_bytes(ws_bytes, cmd, req_id, need_gzip, need_encrypt, key) ==
    LET z == IF need_gzip THEN GzipCompress(ws_bytes) ELSE ws_bytes
        e == IF need_encrypt THEN AesEncrypt(PackPad(z), key) ELSE z
    IN  <<PackFlag(need_gzip, need_encrypt)>> \o ToBytes4(cmd) \o ToBytes4(req_id) \o e

(***************************************************************************)
(* Client._unpack_ws_bytes.  The result records what the call returns, or  *)
(* the exception it raises, and the steps the flag byte made it choose.  A *)
(* message whose data is no byte string is [isbytes |-> FALSE].            *)
(***************************************************************************)
Bytes(b) == [isbytes |-> TRUE, b |-> b]

NotBytes == [isbytes |-> FALSE, b |-> <<>>]

Returned(data, cmd, req_id, steps) ==
    [raised |-> "none", data |-> data, cmd |-> cmd, req_id |-> req_id, steps |-> steps]

Raised(exc, steps) ==
    [raised |-> exc, data |-> <<>>, cmd |-> 0, req_id |-> 0, steps |-> steps]

FlagDecrypts(flag) == (flag \div 128) % 2 = 1

FlagGunzips(flag) == (flag \div 64) % 2 = 1

\* the length test with its threshold one byte lower
ShortFrameBelow8(ws_bytes) == Len(ws_bytes) < 8

\* len(ws_bytes) < 9
ShortFrame(ws_bytes) == Len(ws_bytes) < 9

\* ws_bytes = ws_bytes.rstrip(ws_bytes[-2:-1])
UnpackStrip(ws_bytes) == RStrip(ws_bytes, SecondLast(ws_bytes))

_unpack_ws_bytes(msg, key) ==
    IF ~msg.isbytes THEN Raised("TypeError", <<>>)
    ELSE LET ws_bytes == msg.b IN
    IF ShortFrame(ws_bytes) THEN Returned(ws_bytes, 0, 0, <<>>)
    ELSE IF ws_bytes = <<>> THEN Raised("IndexError", <<>>)
    ELSE LET flag   == ws_bytes[1]
             cmd    == FromBytes(Slice(ws_bytes, 1, 5))
             req_id == FromBytes(Slice(ws_bytes, 5, 9))
             body   == Tail0(ws_bytes, 9)
             s1     == IF FlagDecrypts(flag) THEN <<"decrypt">> ELSE <<>>
             s2     == IF FlagGunzips(flag) THEN s1 \o <<"gunzip">> ELSE s1
         IN  IF FlagDecrypts(flag) /\ ~Aligned(body) THEN Raised("ValueError", s2)
             ELSE LET plain == IF FlagDecrypts(flag)
                               THEN UnpackStrip(AesDecrypt(body, key))
                               ELSE body
                  IN  IF FlagGunzips(flag)
                      THEN LET g == GzipDecompress(plain)
                           IN  IF g.ok THEN Returned(g.data, cmd, req_id, s2)
                               ELSE Raised("BadGzipFile", s2)
                      ELSE Returned(plain, cmd, req_id, s2)

(***************************************************************************)
(* WebsocketResponse and its wait table                                    *)
(***************************************************************************)
Callers == {"a", "b"}

\* the callers differ in name only: the first call is a's
FirstCaller == "a"

\* what random.randbytes(36) may return
ClientPasswords == {1, 2}

\* passwords differ in value only: the first one drawn is this one
FirstPassword == 1

MaxCalls == 2

MaxClock == 2

\* time.time() at the start of the process
ClockStart == 1

\* what int(time.time()) may return: the second last read, or a later one
\* (the first read is the start of the process)
Now == IF ids = <<>> THEN {clock} ELSE {t \in {clock, clock + 1} : t <= MaxClock}

\* WebsocketResponse._websocket_request_id, the class attribute: None.
\* __init__ reads it and assigns an instance attribute of the same name,
\* so the class attribute stays None.
ClassRequestId == 0

\* WebsocketResponse.__init__: the request id of an object created at timestamp
NewReqId(timestamp) ==
    LET start == IF ClassRequestId = 0 THEN timestamp - 1 ELSE ClassRequestId
    IN  start + 1

NewResponse(timestamp) ==
    [req_id |-> NewReqId(timestamp), data |-> NotBytes, event |-> FALSE]

DictSet(d, k, v) == [x \in DOMAIN d \cup {k} |-> IF x = k THEN v ELSE d[x]]

DictDel(d, k) == [x \in DOMAIN d \ {k} |-> d[x]]

DictGet(d, k) == IF k \in DOMAIN d THEN d[k] ELSE 0

\* a send_ws_bytes that has not entered the request when the frame is written
WaitInsertSkipped(wd, req_id, ws_res) == wd

\* WebsocketResponse.ws_res_wait_dict[ws_res.req_id] = ws_res, the statement
\* before "await self.websocket.send_bytes(ws_bytes)"
WaitInsert(wd, req_id, ws_res) == DictSet(wd, req_id, ws_res)

\* the weak reference of a freed object disappears, unless the key was reassigned
DictDrop(d, k, obj) == IF DictGet(d, k) = obj THEN DictDel(d, k) ELSE d

\* the objects without object i, which its caller let go of
Freed(objs, i) == [x \in DOMAIN objs \ {i} |-> objs[x]]

(***************************************************************************)
(* Payloads.  A request payload is one byte; a reply payload is the status *)
(* (errorno) followed by the number of the request it answers.             *)
(***************************************************************************)
\* UpdateClientInfoReqIdl with secretKey = rsa_chiper.encrypt(ws_password)
HandshakePayload(password) == <<100 + password>>

\* CommitPersonalMsgReqIdl with the caller's content
MsgPayload(c) == IF c = "a" THEN <<1>> ELSE <<2>>

\* ParseFromString: the empty string parses to the default message
ParseOk(payload) == payload = <<>> \/ payload[1] \in {0, 1}

Errorno(payload) == IF payload = <<>> THEN 0 ELSE payload[1]

ReplyOk(payload) == ParseOk(payload) /\ Errorno(payload) = 0

AnswerTo(payload) == IF Len(payload) >= 2 THEN payload[2] ELSE 0

(***************************************************************************)
(* What the peer may send on connection k: a reply to any frame written on *)
(* k, plain or encrypted and compressed, any number of times; a frame      *)
(* shorter than the header; frames that cannot be decrypted or             *)
(* decompressed; a message that carries no byte string.                    *)
(***************************************************************************)
ReplyFrame(w, errorno, secure, key) ==
    LET payload == <<errorno, w.obj>>
        body    == IF secure THEN AesEncrypt(PackPad(GzipCompress(payload)), key)
                   ELSE payload
    IN  Bytes(<<IF secure THEN 200 ELSE 8>> \o Slice(w.frame, 1, 9) \o body)

Replies(k) ==
    {ReplyFrame(conns[k].wrote[n], e, s, DeriveKey(_ws_password)) :
        n \in 1..Len(conns[k].wrote), e \in {0, 1}, s \in BOOLEAN}

Malformed ==
    {Bytes(<<8>>), Bytes(<<8, 0, 0, 0, 0, 0, 0, 1>>),
     Bytes(<<136, 0, 0, 3, 233, 0, 0, 0, 1, 5>>),
     Bytes(<<72, 0, 0, 3, 233, 0, 0, 0, 1, 5>>),
     NotBytes}

Inbound(k) == IF conns[k].closed THEN {NotBytes} ELSE Replies(k) \cup Malformed

(***************************************************************************)
(* Client                                                                  *)
(***************************************************************************)
\* Client.is_ws_aviliable
is_ws_aviliable == ~(websocket = 0 \/ conns[websocket].closed)

\* task.cancel(): the task stops waiting for a message; when it next runs
\* CancelledError is caught and _ws_dispatch returns
Cancel(ts, t) ==
    IF t # 0 /\ ts[t].state = "live"
    THEN [ts EXCEPT ![t] = [state |-> "cancelled", ws |-> 0]] ELSE ts

Live(t) == tasks[t].state = "live"

\* random.randbytes(36)
RandBytes == IF _ws_password = 0 THEN {FirstPassword} ELSE ClientPasswords

\* a password drawn anew at every access
ws_passwordAnew(fresh) == fresh

\* Client.ws_password, with fresh what random.randbytes would return
ws_password(fresh) == IF _ws_password = 0 THEN fresh ELSE _ws_password

\* Client.ws_aes_chiper: the key of the cipher, made on first use from the
\* password (which every user of the cipher finds generated)
ws_aes_chiper == IF _ws_aes_chiper = -1 THEN DeriveKey(_ws_password) ELSE _ws_aes_chiper

ClientInit ==
    /\ clock = ClockStart
    /\ ids = <<>>
    /\ expired = {}
    /\ resp = <<>>
    /\ wait_dict = <<>>
    /\ websocket = 0
    /\ conns = <<>>
    /\ _ws_dispatcher = 0
    /\ tasks = <<>>
    /\ _ws_password = 0
    /\ _ws_aes_chiper = -1
    /\ session_closed = FALSE
    /\ pc = [c \in Callers |-> "idle"]
    /\ loc = [c \in Callers |-> [res |-> 0, hsconn |-> 0, read |-> "none", ret |-> "none",
                                timeout |-> 0]]
    /\ calls = 0

\* res.read(timeout=5), in seconds, in _init_websocket and in send_msg
HandshakeTimeout == 5

MsgTimeout == 5

\* the exceptions the awaited calls raise, all subclasses of Exception
ExceptionClasses ==
    {"TimeoutError", "KeyError", "DecodeError", "ValueError", "ConnectionResetError",
     "ClientConnectorError", "RuntimeError", "TypeError", "AttributeError"}

\* a handler that returns False for ValueError and lets the rest pass
ExceptValueErrorOnly(exc) == IF exc = "ValueError" THEN "False" ELSE exc

\* except Exception as err: LOG.warning(...); return False
ExceptReturn(exc) == IF exc \in ExceptionClasses THEN "False" ELSE exc

\* a handshake whose reply status is not looked at
ReadFailureStatusIgnored(outcome, data) ==
    IF outcome = "KeyError" THEN "KeyError"
    ELSE IF outcome = "timeout" THEN "TimeoutError"
    ELSE IF ~ParseOk(data.b) THEN "DecodeError"
    ELSE "none"

\* what ends the try block after read(): the exception of read(), of
\* ParseFromString, or the ValueError raised on a nonzero errorno
ReadFailure(outcome, data) ==
    IF outcome = "KeyError" THEN "KeyError"
    ELSE IF outcome = "timeout" THEN "TimeoutError"
    ELSE IF ~ParseOk(data.b) THEN "DecodeError"
    ELSE IF Errorno(data.b) # 0 THEN "ValueError"
    ELSE "none"

\* a return that starts the call over when a message got no good reply
ReturnOrRetry(c, loc0, value) ==
    /\ pc' = [pc EXCEPT ![c] = IF pc[c] = "msg_read" /\ value = "False"
                                THEN "connecting" ELSE "idle"]
    /\ loc' = [loc0 EXCEPT ![c].ret = value, ![c].res = 0, ![c].hsconn = 0,
                            ![c].timeout = 0]

Return(c, loc0, value) ==
    /\ pc' = [pc EXCEPT ![c] = "idle"]
    /\ loc' = [loc0 EXCEPT ![c].ret = value, ![c].res = 0, ![c].hsconn = 0,
                            ![c].timeout = 0]

\* send_msg from "res = await self.send_ws_bytes(..., cmd=205001)" to the
\* suspension in res.read(timeout=5), or to "return False" when the write fails
SendMessage(c, now, resp0, wd0, conns0, loc0) ==
    LET obj   == NewResponse(now)
        idx   == Len(ids) + 1
        key   == ws_aes_chiper
        frame == _pack_ws_bytes(MsgPayload(c), 205001, obj.req_id, TRUE, TRUE, key)
        wd1   == WaitInsert(wd0, obj.req_id, idx)
    IN  /\ _ws_aes_chiper' = key
        /\ clock' = now
        /\ ids' = Append(ids, obj.req_id)
        /\ IF ~conns0[websocket].closed
           THEN /\ resp' = DictSet(resp0, idx, obj)
                /\ wait_dict' = wd1
                /\ conns' = [conns0 EXCEPT ![websocket].wrote =
                                Append(@, [frame |-> frame, obj |-> idx,
                                           hs |-> conns0[websocket].hs])]
                /\ pc' = [pc EXCEPT ![c] = "msg_read"]
                /\ loc' = [loc0 EXCEPT ![c].res = idx, ![c].ret = "none", ![c].hsconn = 0,
                                        ![c].timeout = MsgTimeout]
           ELSE /\ resp' = resp0
                /\ wait_dict' = DictDrop(wd1, obj.req_id, idx)
                /\ conns' = conns0
                /\ Return(c, loc0, ExceptReturn("ConnectionResetError"))

\* send_msg up to its first suspension: _init_websocket finds the socket
\* usable and the message is sent, or _create_websocket cancels the
\* dispatcher and awaits the connection
SendMsgStart(c) ==
    /\ UNCHANGED <<codec, signer, browser, api>>
    /\ pc[c] = "idle"
    /\ calls < MaxCalls
    /\ calls = 0 => c = FirstCaller
    /\ calls' = calls + 1
    /\ IF is_ws_aviliable
       THEN /\ \E now \in Now : SendMessage(c, now, resp, wait_dict, conns, loc)
            /\ UNCHANGED <<expired, websocket, _ws_dispatcher, tasks, _ws_password,
                           session_closed>>
       ELSE /\ tasks' = Cancel(tasks, _ws_dispatcher)
            /\ pc' = [pc EXCEPT ![c] = "connecting"]
            /\ loc' = [loc EXCEPT ![c].ret = "none"]
            /\ UNCHANGED <<clock, ids, expired, resp, wait_dict, websocket, conns, _ws_dispatcher,
                           _ws_password, _ws_aes_chiper, session_closed>>

\* the socket found in self.websocket before this caller's connection existed
SocketBeforeConnect(cid) == IF websocket = 0 THEN cid ELSE websocket

\* self.websocket as send_ws_bytes reads it for the handshake: the caller ran
\* without suspension since it assigned its own connection cid to the field
SocketAtSend(cid) == cid

\* _create_websocket after the connection attempt, and on success
\* _init_websocket up to the suspension in res.read(timeout=5)
ConnectDone(c, ok) ==
    /\ UNCHANGED <<codec, signer, browser, api>>
    /\ pc[c] = "connecting"
    /\ IF ~ok \/ session_closed
       THEN /\ Return(c, loc, ExceptReturn(IF ok THEN "RuntimeError"
                                                ELSE "ClientConnectorError"))
            /\ UNCHANGED <<clock, ids, expired, resp, wait_dict, websocket, conns, _ws_dispatcher,
                           tasks, _ws_password, _ws_aes_chiper, session_closed, calls>>
       ELSE \E pw \in {ws_password(fresh) : fresh \in RandBytes}, now \in Now :
            LET cid   == Len(conns) + 1
                tid   == Len(tasks) + 1
                obj   == NewResponse(now)
                idx   == Len(ids) + 1
                frame == _pack_ws_bytes(HandshakePayload(pw), 1001, obj.req_id,
                                        FALSE, FALSE, _ws_aes_chiper)
            IN  /\ websocket' = cid
                /\ tasks' = Append(tasks, [state |-> "live", ws |-> cid])
                /\ _ws_dispatcher' = tid
                /\ _ws_password' = pw
                /\ ids' = Append(ids, obj.req_id)
                /\ resp' = DictSet(resp, idx, obj)
                /\ wait_dict' = WaitInsert(wait_dict, obj.req_id, idx)
                /\ conns' = [Append(conns, [closed |-> FALSE, hs |-> "pending",
                                            wrote |-> <<>>])
                                EXCEPT ![SocketAtSend(cid)].wrote =
                                    Append(@, [frame |-> frame, obj |-> idx,
                                               hs |-> "none"])]
                /\ pc' = [pc EXCEPT ![c] = "hs_read"]
                /\ loc' = [loc EXCEPT ![c].res = idx, ![c].hsconn = cid,
                                       ![c].timeout = HandshakeTimeout]
                /\ clock' = now
                /\ UNCHANGED <<expired, _ws_aes_chiper, session_closed, calls>>

\* WebsocketResponse.read: the entry is deleted whichever way the wait ends;
\* deleting an absent key raises KeyError
ReadEnd(req_id, wd, timed_out) ==
    IF req_id \notin DOMAIN wd THEN "KeyError"
    ELSE IF timed_out THEN "timeout" ELSE "returned"

ReadOutcome(i, timed_out) == ReadEnd(resp[i].req_id, wait_dict, timed_out)

\* the wait in read() ends, by the event or by the timeout, and the caller
\* runs on to its next suspension or to its return
ReadDone(c, timed_out) ==
    /\ UNCHANGED <<codec, signer, browser, api>>
    /\ pc[c] \in {"hs_read", "msg_read"}
    /\ timed_out \/ resp[loc[c].res].event
    /\ expired' = IF timed_out THEN expired \cup {loc[c].res} ELSE expired
    /\ LET i       == loc[c].res
           outcome == ReadOutcome(i, timed_out)
           resp1   == Freed(resp, i)
           loc1    == [loc EXCEPT ![c].read = outcome]
           wd1     == DictDel(wait_dict, resp[i].req_id)
           failure == ReadFailure(outcome, resp[i].data)
           good    == failure = "none"
       IN  IF pc[c] = "hs_read"
           THEN LET conns1 == [conns EXCEPT ![loc[c].hsconn].hs =
                                  IF good THEN "ok" ELSE "failed"]
                IN  IF good
                    THEN /\ \E now \in Now :
                                SendMessage(c, now, resp1, wd1, conns1, loc1)
                         /\ UNCHANGED <<websocket, _ws_dispatcher, tasks,
                                        _ws_password, session_closed, calls>>
                    ELSE /\ resp' = resp1
                         /\ wait_dict' = wd1
                         /\ conns' = conns1
                         /\ Return(c, loc1, ExceptReturn(failure))
                         /\ UNCHANGED <<clock, ids, websocket, _ws_dispatcher, tasks,
                                        _ws_password, _ws_aes_chiper, session_closed,
                                        calls>>
           ELSE /\ resp' = resp1
                /\ wait_dict' = wd1
                /\ Return(c, loc1, IF good THEN "True" ELSE ExceptReturn(failure))
                /\ UNCHANGED <<clock, ids, websocket, conns, _ws_dispatcher, tasks,
                               _ws_password, _ws_aes_chiper, session_closed, calls>>

\* websocket.receive() while another task is waiting in it raises RuntimeError
ConcurrentReceive(t) ==
    \E u \in DOMAIN tasks :
        u # t /\ tasks[u].state = "live" /\ tasks[u].ws = websocket

\* ws_res_wait_dict.get(req_id, None) on what _unpack_ws_bytes returned
DispatchTarget(wd, r) == IF r.raised = "none" THEN DictGet(wd, r.req_id) ELSE 0

\* Client._ws_dispatch: one turn of the loop of task t, on message msg
DispatchMsg(t, msg) ==
    /\ UNCHANGED <<codec, signer, browser, api>>
    /\ Live(t)
    /\ \E r \in {_unpack_ws_bytes(msg, ws_aes_chiper)} :
       LET ws_res == DispatchTarget(wait_dict, r)
       IN  /\ resp' = IF ws_res # 0
                      THEN [resp EXCEPT ![ws_res].data = Bytes(r.data),
                                        ![ws_res].event = TRUE]
                      ELSE resp
           /\ tasks' = [tasks EXCEPT
                          ![t] = IF r.raised # "none" \/ ConcurrentReceive(t)
                                 THEN [state |-> "failed", ws |-> 0]
                                 ELSE [state |-> "live", ws |-> websocket]]
           /\ _ws_aes_chiper' = IF "decrypt" \in {r.steps[n] : n \in 1..Len(r.steps)}
                                THEN ws_aes_chiper ELSE _ws_aes_chiper
    /\ UNCHANGED <<clock, ids, expired, wait_dict, websocket, conns, _ws_dispatcher, _ws_password,
                   session_closed, pc, loc, calls>>

\* task t receives whatever the peer sends on the socket it reads
Dispatch(t) == Live(t) /\ \E msg \in Inbound(tasks[t].ws) : DispatchMsg(t, msg)

\* the peer or the network closes the socket the client uses.  (On a socket
\* the client has replaced, a close shows only as a message without bytes.)
ConnLost(k) ==
    /\ UNCHANGED <<codec, signer, browser, api>>
    /\ k = websocket
    /\ ~conns[k].closed
    /\ conns' = [conns EXCEPT ![k].closed = TRUE]
    /\ UNCHANGED <<clock, ids, expired, resp, wait_dict, websocket, _ws_dispatcher, tasks,
                   _ws_password, _ws_aes_chiper, session_closed, pc, loc, calls>>

\* Client.close
Close ==
    /\ UNCHANGED <<codec, signer, browser, api>>
    /\ ~session_closed
    /\ session_closed' = TRUE
    /\ tasks' = Cancel(tasks, _ws_dispatcher)
    /\ conns' = IF websocket # 0 THEN [conns EXCEPT ![websocket].closed = TRUE] ELSE conns
    /\ UNCHANGED <<clock, ids, expired, resp, wait_dict, websocket, _ws_dispatcher, _ws_password,
                   _ws_aes_chiper, pc, loc, calls>>

Next ==
    \/ \E c \in Callers : SendMsgStart(c)
    \/ \E c \in Callers, ok \in BOOLEAN : ConnectDone(c, ok)
    \/ \E c \in Callers, timed_out \in BOOLEAN : ReadDone(c, timed_out)
    \/ \E t \in DOMAIN tasks : Dispatch(t)
    \/ \E k \in DOMAIN conns : ConnLost(k)
    \/ Close

(***************************************************************************)
(* The legacy Browser (tiebaBrowser): one caller of send_msg.  There is no *)
(* dispatcher; get_websocket and send_msg each write a frame and receive   *)
(* the next message of the socket themselves.                              *)
(***************************************************************************)
MaxBrowserCalls == 3

\* random.randbytes(4), the bytes _wrap_ws_bytes puts where the request id goes
BrowserRand == {7}

\* Sessions._wrap_ws_bytes: the frame of _pack_ws_bytes with random id bytes
_wrap_ws_bytes(ws_bytes, cmd, need_gzip, need_encrypt, key, rnd) ==
    LET zipped == IF need_gzip THEN GzipCompress(ws_bytes) ELSE ws_bytes
        body   == IF need_encrypt THEN AesEncrypt(PackPad(zipped), key) ELSE zipped
    IN  <<PackFlag(need_gzip, need_encrypt)>> \o ToBytes4(cmd) \o ToBytes4(rnd) \o body

\* what websocket.receive(timeout=5) and the parsing after it end with: a
\* reply with status 0, a reply with a nonzero status, bytes that do not
\* parse, the timeout, or the close message of the peer
BrowserReplies == {"ok", "status", "undecodable", "timeout", "closed"}

\* the exception that ends the try block after receive(), "none" for none
BrowserFailure(reply) ==
    CASE reply = "ok" -> "none"
      [] reply = "status" -> "ValueError"
      [] reply = "undecodable" -> "DecodeError"
      [] reply = "timeout" -> "TimeoutError"
      [] reply = "closed" -> "TypeError"

BrowserIdle ==
    browser = [websocket |-> 0, conns |-> <<>>, pc |-> "idle", ws |-> 0, hs |-> "none",
               sent |-> FALSE, ret |-> "none", calls |-> 0, password |-> 0]

\* websocket.send_bytes raises on None and on a closed socket
BrowserWritable(b, ws) == ws # 0 /\ ~b.conns[ws].closed

BrowserWrite(b, ws, frame) ==
    [b EXCEPT !.conns[ws].wrote = Append(@, [frame |-> frame, hs |-> b.hs])]

\* Browser.send_msg after get_websocket returned ws: the message frame is
\* written and the reply awaited, or the failed write gives False
BrowserSendMessage(b, ws) ==
    IF BrowserWritable(b, ws)
    THEN {[BrowserWrite(b, ws, _wrap_ws_bytes(MsgPayload(FirstCaller), 205001, TRUE, TRUE,
                                              DeriveKey(b.password), rnd))
              EXCEPT !.pc = "msg_read", !.ws = ws, !.sent = TRUE] : rnd \in BrowserRand}
    ELSE {[b EXCEPT !.pc = "idle", !.ws = ws, !.ret = "False"]}

\* Browser.get_websocket from the write of the handshake frame on ws: the
\* reply is awaited, or the failed write is logged and ws returned to send_msg
BrowserHandshake(b, ws) ==
    IF BrowserWritable(b, ws)
    THEN {[BrowserWrite(b, ws, _wrap_ws_bytes(HandshakePayload(b.password), 1001,
                                              FALSE, FALSE, DeriveKey(b.password), rnd))
              EXCEPT !.pc = "hs_read", !.ws = ws] : rnd \in BrowserRand}
    ELSE BrowserSendMessage([b EXCEPT !.hs = "failed"], ws)

\* send_msg is called: get_websocket reads sessions.ws_password and
\* sessions.websocket and awaits create_websocket or writes the handshake
BrowserSendMsg ==
    /\ browser.pc = "idle"
    /\ browser.calls < MaxBrowserCalls
    /\ LET b == [browser EXCEPT !.calls = @ + 1, !.hs = "none", !.sent = FALSE,
                                !.ret = "none",
                                !.password = IF @ = 0 THEN FirstPassword ELSE @]
       IN  IF b.websocket = 0 \/ b.conns[b.websocket].closed
           THEN browser' = [b EXCEPT !.pc = "connecting"]
           ELSE browser' \in BrowserHandshake(b, b.websocket)
    /\ UNCHANGED <<codec, signer, clientVars, api>>

\* Sessions.create_websocket returns, True or False; get_websocket ignores
\* the result, takes sessions.websocket and writes the handshake on it
BrowserConnectDone(ok) ==
    /\ browser.pc = "connecting"
    /\ LET b == IF ok
                THEN [browser EXCEPT !.conns = Append(@, [closed |-> FALSE, wrote |-> <<>>]),
                                     !.websocket = Len(browser.conns) + 1]
                ELSE browser
       IN  browser' \in BrowserHandshake(b, b.websocket)
    /\ UNCHANGED <<codec, signer, clientVars, api>>

BrowserReceived(b, reply) ==
    IF reply = "closed" THEN [b EXCEPT !.conns[b.ws].closed = TRUE] ELSE b

\* get_websocket: receive() ends; whatever it ended with, the except clause
\* only logs, websocket is returned and send_msg goes on
BrowserHsReceive(reply) ==
    /\ browser.pc = "hs_read"
    /\ LET b == [BrowserReceived(browser, reply)
                    EXCEPT !.hs = IF BrowserFailure(reply) = "none" THEN "ok" ELSE "failed"]
       IN  browser' \in BrowserSendMessage(b, b.ws)
    /\ UNCHANGED <<codec, signer, clientVars, api>>

\* send_msg: receive() ends and send_msg returns
BrowserMsgReceive(reply) ==
    /\ browser.pc = "msg_read"
    /\ browser' = [BrowserReceived(browser, reply)
                      EXCEPT !.pc = "idle",
                             !.ret = ExceptReturn(IF BrowserFailure(reply) = "none"
                                                  THEN "True" ELSE BrowserFailure(reply))]
    /\ UNCHANGED <<codec, signer, clientVars, api>>

\* the peer or the network closes the socket between two calls
BrowserConnLost ==
    /\ browser.pc = "idle"
    /\ BrowserWritable(browser, browser.websocket)
    /\ browser' = [browser EXCEPT !.conns[browser.websocket].closed = TRUE]
    /\ UNCHANGED <<codec, signer, clientVars, api>>

BrowserNext ==
    \/ BrowserSendMsg
    \/ \E ok \in BOOLEAN : BrowserConnectDone(ok)
    \/ \E reply \in BrowserReplies : BrowserHsReceive(reply)
    \/ \E reply \in BrowserReplies : BrowserMsgReceive(reply)
    \/ BrowserConnLost

(***************************************************************************)
(* Login state and forum-id cache of the Client: get_tbs, get_self_info,   *)
(* login and get_fid, called by the callers and suspended in their one     *)
(* network request.                                                        *)
(***************************************************************************)
MaxApiCalls == 3

FidNames == {"x", "y"}

\* what the request of login() ends with: the account data, or an exception
\* (network error, nonzero error_code, a missing field)
LoginReplies == {"ok", "failed"}

\* what the request of get_fid ends with: an exception before the body is
\* read, or the fields "no" and data.fid of the body
FidReplies ==
    {[raised |-> TRUE, no |-> 0, fid |-> 0]}
        \cup {[raised |-> FALSE, no |-> n, fid |-> f] : n \in {0, 1}, f \in {0, 7, 8}}

ApiIdle ==
    api = [_tbs |-> "None", _user |-> "None", fid_dict |-> <<>>,
           pc |-> [c \in Callers |-> "idle"],
           loc |-> [c \in Callers |-> [op |-> "none", fname |-> "none", ret |-> "none",
                                       n |-> 0]],
           calls |-> 0, logins |-> 0, requests |-> 0, succeeded |-> FALSE]

ApiCall(a, c, op, fname) ==
    [a EXCEPT !.calls = @ + 1,
              !.loc[c] = [op |-> op, fname |-> fname, ret |-> "none", n |-> a.calls + 1]]

\* await self.login(): the request is sent
ApiLogin(a, c) == [a EXCEPT !.pc[c] = "login", !.logins = @ + 1]

\* Client.get_tbs: "if not self._tbs: await self.login()"
ApiGetTbs(c) ==
    /\ api.pc[c] = "idle"
    /\ api.calls < MaxApiCalls
    /\ LET a == ApiCall(api, c, "get_tbs", "none")
       IN  api' = IF a._tbs \in {"None", ""}
                  THEN ApiLogin(a, c)
                  ELSE [a EXCEPT !.loc[c].ret = a._tbs]
    /\ UNCHANGED <<codec, signer, browser, clientVars>>

\* Client.get_self_info: "if self._user is None: await self.login()"
ApiGetSelfInfo(c) ==
    /\ api.pc[c] = "idle"
    /\ api.calls < MaxApiCalls
    /\ LET a == ApiCall(api, c, "get_self_info", "none")
       IN  api' = IF a._user = "None"
                  THEN ApiLogin(a, c)
                  ELSE [a EXCEPT !.loc[c].ret = a._user]
    /\ UNCHANGED <<codec, signer, browser, clientVars>>

\* Client.login after its request: _user and _tbs are set from the reply, or
\* to BasicUserInfo() and "" in the except clause; the caller then returns
\* the field it asked for
ApiLoginDone(c, reply) ==
    /\ api.pc[c] = "login"
    /\ LET a == IF reply = "ok"
                THEN [api EXCEPT !._user = "user", !._tbs = "tbs", !.succeeded = TRUE]
                ELSE [api EXCEPT !._user = "empty", !._tbs = ""]
       IN  api' = [a EXCEPT !.pc[c] = "idle",
                            !.loc[c].ret = IF a.loc[c].op = "get_tbs" THEN a._tbs
                                           ELSE a._user]
    /\ UNCHANGED <<codec, signer, browser, clientVars>>

\* a get_fid that enters whatever data.fid holds
FidStoreAlways(d, fname, fid) == DictSet(d, fname, fid)

\* "if fid := int(res_json['data']['fid']): self.fid_dict[fname] = fid"
FidStore(d, fname, fid) == IF fid # 0 THEN DictSet(d, fname, fid) ELSE d

\* Client.get_fid: "if fid := self.fid_dict.get(fname, 0): return fid", else
\* the request is sent
ApiGetFid(c, fname) ==
    /\ api.pc[c] = "idle"
    /\ api.calls < MaxApiCalls
    /\ LET a   == ApiCall(api, c, "get_fid", fname)
           fid == DictGet(a.fid_dict, fname)
       IN  api' = IF fid # 0
                  THEN [a EXCEPT !.loc[c].ret = fid]
                  ELSE [a EXCEPT !.pc[c] = "fid", !.requests = @ + 1]
    /\ UNCHANGED <<codec, signer, browser, clientVars>>

\* Client.get_fid after its request: a nonzero "no" raises ValueError, every
\* exception gives fid = 0, and a nonzero fid is entered in fid_dict
ApiGetFidDone(c, reply) ==
    /\ api.pc[c] = "fid"
    /\ LET failed == reply.raised \/ reply.no # 0
           fname  == api.loc[c].fname
       IN  api' = [api EXCEPT
                     !.pc[c] = "idle",
                     !.loc[c].ret = IF failed THEN 0 ELSE reply.fid,
                     !.fid_dict = IF failed THEN @ ELSE FidStore(@, fname, reply.fid)]
    /\ UNCHANGED <<codec, signer, browser, clientVars>>

ApiNext ==
    \/ \E c \in Callers : ApiGetTbs(c)
    \/ \E c \in Callers : ApiGetSelfInfo(c)
    \/ \E c \in Callers, reply \in LoginReplies : ApiLoginDone(c, reply)
    \/ \E c \in Callers, fname \in FidNames : ApiGetFid(c, fname)
    \/ \E c \in Callers, reply \in FidReplies : ApiGetFidDone(c, reply)

(***************************************************************************)
(* The codec on its own: the inputs are drawn in CodecStart, CodecPack     *)
(* applies _pack_ws_bytes, CodecUnpack applies _unpack_ws_bytes and        *)
(* CodecDispatch looks the unpacked request id up in the wait table, as    *)
(* _ws_dispatch does.                                                      *)
(***************************************************************************)
MaxPayloadLen == 3

MaxRawLen == 8

PayloadBytes == {0, 1, 16}

RawBytes == {0, 1, 72}

Cmds == {0, 1001, 205001}

ReqIds == {0, 1, 258, 1700000000}

Flags == {8, 72, 136, 200}

\* wait tables with requests pending
CodecWaits == {DictSet(<<>>, 1, 1), DictSet(DictSet(<<>>, 258, 1), 1700000000, 2)}

NoResult == Returned(<<>>, 0, 0, <<"pending">>)

CodecInput(mode, pc0, payload, cmd, req_id, need_gzip, need_encrypt, frame, wd) ==
    [mode |-> mode, pc |-> pc0, payload |-> payload, cmd |-> cmd, req_id |-> req_id,
     need_gzip |-> need_gzip, need_encrypt |-> need_encrypt, password |-> 1,
     frame |-> frame, out |-> NoResult, wait |-> wd, completed |-> 0,
     padded |-> <<>>, stripped |-> <<>>, reads |-> <<>>]

CodecInputs ==
    {CodecInput("pack", "pack", p, c, r, g, e, NotBytes, DictSet(<<>>, 1, 1)) :
        p \in SeqsUpTo(PayloadBytes, MaxPayloadLen), c \in Cmds, r \in ReqIds,
        g \in BOOLEAN, e \in BOOLEAN}

CodecRaw ==
    {CodecInput("raw", "unpack", <<>>, 0, 0, FALSE, FALSE, Bytes(b), wd) :
        b \in SeqsUpTo(RawBytes, MaxRawLen), wd \in CodecWaits}

CodecForeign ==
    {CodecInput("foreign", "unpack", <<>>, 0, 0, FALSE, FALSE,
                Bytes(<<f>> \o ToBytes4(1001) \o ToBytes4(r) \o b), DictSet(<<>>, 1, 1)) :
        f \in Flags, r \in {1, 258}, b \in SeqsUpTo(PayloadBytes, 2)}

MaxFill == 16

PadBytes == {0, 1, 2, 15, 16}

\* byte strings of every length up to MaxFill + 2: a run of one byte and up
\* to two more bytes
PadStrings ==
    {Repeat(x, n) \o t : x \in {0, 1}, n \in 0..MaxFill, t \in SeqsUpTo(PadBytes, 2)}

\* the byte strings handed to the padding step of _pack_ws_bytes
CodecPadInputs ==
    {CodecInput("pad", "pad", p, 0, 0, FALSE, TRUE, NotBytes, <<>>) : p \in PadStrings}

\* what AES decryption may give _unpack_ws_bytes: whole blocks
CodecStripInputs ==
    {[CodecInput("strip", "strip", <<>>, 0, 0, FALSE, FALSE, NotBytes, <<>>)
         EXCEPT !.padded = d] : d \in {p \in PadStrings : Aligned(p)}}

\* requests whose reply the dispatcher has delivered (payload is _data),
\* entered in the wait table alone or beside another request
CodecReadInputs ==
    {CodecInput("read", "read", p, 0, r, FALSE, FALSE, NotBytes,
                IF alone THEN DictSet(<<>>, r, 1)
                ELSE DictSet(DictSet(<<>>, r, 1), 1700000000, 2)) :
        p \in SeqsUpTo(PayloadBytes, 2), r \in {1, 258}, alone \in BOOLEAN}

CodecStart ==
    codec \in CodecInputs \cup CodecRaw \cup CodecForeign \cup CodecPadInputs
                  \cup CodecStripInputs \cup CodecReadInputs

CodecPack ==
    /\ codec.pc = "pack"
    /\ codec' = [codec EXCEPT
                   !.pc = "unpack",
                   !.frame = Bytes(_pack_ws_bytes(codec.payload, codec.cmd, codec.req_id,
                                       codec.need_gzip, codec.need_encrypt,
                                       DeriveKey(codec.password)))]
    /\ UNCHANGED <<clientVars, signer, browser, api>>

CodecUnpack ==
    /\ codec.pc = "unpack"
    /\ codec' = [codec EXCEPT
                   !.pc = "dispatch",
                   !.out = _unpack_ws_bytes(codec.frame, DeriveKey(codec.password))]
    /\ UNCHANGED <<clientVars, signer, browser, api>>

CodecDispatch ==
    /\ codec.pc = "dispatch"
    /\ codec' = [codec EXCEPT
                   !.pc = "done",
                   !.completed = DispatchTarget(codec.wait, codec.out)]
    /\ UNCHANGED <<clientVars, signer, browser, api>>

\* no form list is being signed
SignerIdle == signer = [given |-> <<>>, lists |-> <<>>, rets |-> <<>>]

\* _pack_ws_bytes: the padding step
CodecPad ==
    /\ codec.pc = "pad"
    /\ codec' = [codec EXCEPT !.pc = "strip", !.padded = PackPad(codec.payload)]
    /\ UNCHANGED <<clientVars, signer, browser, api>>

\* _unpack_ws_bytes: the padding-removal step
CodecStrip ==
    /\ codec.pc = "strip"
    /\ codec' = [codec EXCEPT !.pc = "done", !.stripped = UnpackStrip(codec.padded)]
    /\ UNCHANGED <<clientVars, signer, browser, api>>

\* WebsocketResponse.read on a request whose event is set: the wait ends at
\* once, the entry is deleted and _data returned; a missing entry raises
read(req_id, data, wd) ==
    LET end == ReadEnd(req_id, wd, FALSE)
    IN  [end |-> end, data |-> IF end = "returned" THEN data ELSE <<>>,
         wait |-> DictDel(wd, req_id)]

\* one call of read() on the request of the harness, the first or the second
CodecRead ==
    /\ codec.pc \in {"read", "reread"}
    /\ \E res \in {read(codec.req_id, codec.payload, codec.wait)} :
           codec' = [codec EXCEPT
                       !.pc = IF codec.pc = "read" THEN "reread" ELSE "done",
                       !.wait = res.wait,
                       !.reads = Append(@, [end |-> res.end, data |-> res.data])]
    /\ UNCHANGED <<clientVars, signer, browser, api>>

CodecIdle == codec = CodecInput("idle", "done", <<>>, 0, 0, FALSE, FALSE, NotBytes, <<>>)

Init == CodecIdle /\ SignerIdle /\ BrowserIdle /\ ApiIdle /\ ClientInit

Spec == Init /\ [][Next]_vars

CodecInit == CodecStart /\ SignerIdle /\ BrowserIdle /\ ApiIdle /\ ClientInit

CodecNext ==
    CodecPack \/ CodecUnpack \/ CodecDispatch \/ CodecPad \/ CodecStrip \/ CodecRead

SpecCodec == CodecInit /\ [][CodecNext]_vars

SpecBrowser == Init /\ [][BrowserNext]_vars

SpecApi == Init /\ [][ApiNext]_vars

(***************************************************************************)
(* Request signing.  A string is a sequence of characters; a form list is  *)
(* a sequence of <<key, value>> pairs.  Two list objects are signed, each  *)
(* possibly more than once; given keeps the lists as their callers built   *)
(* them.                                                                   *)
(***************************************************************************)
Alphabet ==
    <<"0", "1", "2", "3", "4", "5", "6", "7", "8", "9", "a", "b", "c", "d", "e", "f",
      "g", "i", "l", "n", "s", "t", "=", "!">>

Ord(c) == CHOOSE i \in DOMAIN Alphabet : Alphabet[i] = c

\* hashlib.md5(...).hexdigest(), shortened to four hexadecimal digits
RECURSIVE Md5State(_)
Md5State(str) ==
    IF str = <<>> THEN 4660
    ELSE (Md5State(SubSeq(str, 1, Len(str) - 1)) * 31 + Ord(str[Len(str)]) + 7) % 65536

HexDigit(n) == Alphabet[(n % 16) + 1]

Md5Hex(str) ==
    LET h == Md5State(str)
    IN  <<HexDigit(h \div 4096), HexDigit(h \div 256), HexDigit(h \div 16), HexDigit(h)>>

\* "".join(strs)
RECURSIVE Join(_)
Join(strs) == IF strs = <<>> THEN <<>> ELSE Head(strs) \o Join(Tail(strs))

Secret == <<"t", "i", "e", "b", "a", "c", "l", "i", "e", "n", "t", "!", "!", "!">>

SignKey == <<"s", "i", "g", "n">>

\* the "k=v" strings of the pairs in an order that does not depend on theirs
RawListAnyOrder(forms) ==
    LET arrangements ==
            {g \in [DOMAIN forms -> {forms[i] : i \in DOMAIN forms}] :
                \E q \in [DOMAIN forms -> DOMAIN forms] :
                    /\ \A i, j \in DOMAIN forms : i # j => q[i] # q[j]
                    /\ \A i \in DOMAIN forms : g[i] = forms[q[i]]}
        chosen == CHOOSE g \in arrangements : TRUE
    IN  [i \in DOMAIN forms |-> chosen[i][1] \o <<"=">> \o chosen[i][2]]

\* raw_list = [f"{k}={v}" for k, v in forms]
RawList(forms) == [i \in DOMAIN forms |-> forms[i][1] \o <<"=">> \o forms[i][2]]

\* the joined pairs without the appended secret
RawStrNoSecret(forms) == Join(RawList(forms))

\* raw_list.append("tiebaclient!!!"); raw_str = "".join(raw_list)
RawStr(forms) == Join(Append(RawList(forms), Secret))

\* Client.pack_form: the contents of the list object after forms.append, which
\* is also the object returned
pack_form(forms) == Append(forms, <<SignKey, Md5Hex(RawStr(forms))>>)

MaxFormLen == 2

MaxSignCalls == 2

FormKeys == {<<"a">>, <<"b">>}

\* values are arbitrary strings: the empty one and one that holds "="
FormValues == {<<>>, <<"b", "=">>}

FormLists == SeqsUpTo(FormKeys \X FormValues, MaxFormLen)

SignerStart ==
    signer \in {[given |-> <<f, g>>, lists |-> <<f, g>>, rets |-> <<>>] :
                   f \in FormLists, g \in FormLists}

\* one call pack_form(forms) with list object n as forms
PackForm(n) ==
    /\ Len(signer.rets) < MaxSignCalls
    /\ signer' = [given |-> signer.given,
                  lists |-> [signer.lists EXCEPT ![n] = pack_form(@)],
                  rets  |-> Append(signer.rets,
                               [obj |-> n, arg |-> signer.lists[n],
                                raw |-> RawStr(signer.lists[n]),
                                value |-> pack_form(signer.lists[n])])]
    /\ UNCHANGED <<codec, clientVars, browser, api>>

SignInit == CodecIdle /\ SignerStart /\ BrowserIdle /\ ApiIdle /\ ClientInit

SignNext == \E n \in {1, 2} : PackForm(n)

SpecSign == SignInit /\ [][SignNext]_vars

(***************************************************************************)
(* Properties                                                              *)
(***************************************************************************)
FlagByte(frame) == frame[1]

\* the frame was packed with need_encrypt: bit 6 of the flag byte
FrameEncrypted(frame) == (FlagByte(frame) \div 64) % 2 = 1

CodecUnpacked == codec.pc \in {"dispatch", "done"}

\* C1: any two WebsocketResponse objects ever constructed, in the same clock
\* second or not, have different request ids.
UniqueRequestIds == \A i, j \in DOMAIN ids : i # j => ids[i] # ids[j]

\* C2: while two requests are pending together, a request whose event is set
\* holds the payload of the reply to itself, whichever reply came first.
OwnReplyDelivered ==
    \A i, j \in DOMAIN resp :
        (i # j /\ resp[i].event) => AnswerTo(resp[i].data.b) = i

\* C3: unpacking what _pack_ws_bytes produced gives back the payload, the
\* command and the request id, for each of the four (need_gzip, need_encrypt)
\* combinations.
PackUnpackRoundTrip ==
    (codec.mode = "pack" /\ CodecUnpacked) =>
        /\ codec.out.raised = "none"
        /\ codec.out.data = codec.payload
        /\ codec.out.cmd = codec.cmd
        /\ codec.out.req_id = codec.req_id

\* C4: a call of read() ends by returning the payload or by raising the
\* timeout error, and by nothing else.
ReadEndsTwoWays == \A c \in Callers : loc[c].read \in {"none", "returned", "timeout"}

\* C5: on a connection whose handshake has failed no encrypted frame is
\* written afterwards.
NoEncryptedAfterFailedHandshake ==
    \A k \in DOMAIN conns :
        \A n \in DOMAIN conns[k].wrote :
            FrameEncrypted(conns[k].wrote[n].frame) => conns[k].wrote[n].hs # "failed"

\* C6: an encrypted frame is written on a connection only after the
\* handshake reply with status 0 was received on it, also by a send_msg that
\* starts while another one awaits that reply.
EncryptedOnlyAfterHandshake ==
    \A k \in DOMAIN conns :
        \A n \in DOMAIN conns[k].wrote :
            FrameEncrypted(conns[k].wrote[n].frame) => conns[k].wrote[n].hs = "ok"

\* C7: at most one dispatcher task is live at any time, also when two
\* callers are inside _create_websocket together.
OneLiveDispatcher == Cardinality({t \in DOMAIN tasks : Live(t)}) <= 1

\* C8: a dispatcher task ends only by being cancelled; no message it
\* receives ends it.
DispatcherEndsOnlyCancelled == \A t \in DOMAIN tasks : tasks[t].state # "failed"

\* C9: on a frame with a full header _unpack_ws_bytes decrypts exactly when
\* bit 6 of the flag byte is set, decompresses exactly when bit 7 is set, and
\* decrypts first: the bits _pack_ws_bytes sets for need_encrypt and need_gzip.
UnpackReadsPackBits ==
    (CodecUnpacked /\ codec.frame.isbytes /\ Len(codec.frame.b) >= 9) =>
        LET flag == FlagByte(codec.frame.b)
        IN  codec.out.steps =
                (IF (flag \div 64) % 2 = 1 THEN <<"decrypt">> ELSE <<>>)
                \o (IF (flag \div 128) % 2 = 1 THEN <<"gunzip">> ELSE <<>>)

IsShortInput == codec.frame.isbytes /\ Len(codec.frame.b) <= 8

\* C10: for an input of 0 to 8 bytes _unpack_ws_bytes raises nothing and
\* returns (the input, 0, 0), and the dispatcher completes no pending request
\* on it.
ShortInputIgnored ==
    /\ (CodecUnpacked /\ IsShortInput) =>
           /\ codec.out.raised = "none"
           /\ codec.out.data = codec.frame.b
           /\ codec.out.cmd = 0
           /\ codec.out.req_id = 0
    /\ (codec.pc = "done" /\ IsShortInput) => codec.completed = 0

\* an 8-byte input whose last bytes spell a pending request id went through
\* the dispatcher and completed nothing
ShortInputDispatched ==
    /\ codec.pc = "done"
    /\ codec.mode = "raw"
    /\ codec.frame.b = <<72, 0, 0, 0, 0, 0, 0, 1>>
    /\ DictGet(codec.wait, 1) = 1
    /\ codec.completed = 0

\* the pairs of a field list written out in order as "k=v", one after another
InOrder(fields) == Join([i \in DOMAIN fields |-> fields[i][1] \o <<"=">> \o fields[i][2]])

SignOf(ret) == ret.value[Len(ret.value)][2]

SignFields(fields) == {i \in DOMAIN fields : fields[i][1] = SignKey}

\* g holds the pairs of f in another order
Reordered(f, g) ==
    /\ Len(f) = Len(g)
    /\ f # g
    /\ \E q \in [DOMAIN f -> DOMAIN f] :
           /\ \A i, j \in DOMAIN f : i # j => q[i] # q[j]
           /\ \A i \in DOMAIN f : g[i] = f[q[i]]

\* C11: pack_form(F) returns F followed by one pair ("sign", md5hex of the
\* pairs of F written in order as "k=v" and then "tiebaclient!!!"); the pairs
\* of F keep their place and the sign pair is not in the hashed string.
SignAppended ==
    \A n \in DOMAIN signer.rets :
        LET ret == signer.rets[n]
        IN  /\ Len(ret.value) = Len(ret.arg) + 1
            /\ SubSeq(ret.value, 1, Len(ret.arg)) = ret.arg
            /\ ret.value[Len(ret.value)] = <<SignKey, Md5Hex(InOrder(ret.arg) \o Secret)>>
            /\ ret.raw = InOrder(ret.arg) \o Secret

\* a list of two different pairs has been signed
TwoFieldsSigned ==
    \E n \in DOMAIN signer.rets :
        /\ Len(signer.rets[n].arg) = 2
        /\ signer.rets[n].arg[1] # signer.rets[n].arg[2]
        /\ Len(signer.rets[n].value) = 3

\* C12: two calls on equal lists give the same sign value, and two calls on
\* lists that differ only in the order of their pairs hash different strings,
\* unless the reordering leaves the concatenation as it was.
SignDeterministicOrdered ==
    \A m, n \in DOMAIN signer.rets :
        LET r1 == signer.rets[m]
            r2 == signer.rets[n]
        IN  /\ r1.arg = r2.arg => SignOf(r1) = SignOf(r2)
            /\ (Reordered(r1.arg, r2.arg) /\ InOrder(r1.arg) # InOrder(r2.arg))
                   => r1.raw # r2.raw

\* one list and a reordering of it with another concatenation were both
\* signed, and so were two equal lists held in different objects
ReorderedSigned ==
    /\ Len(signer.rets) = 2
    /\ signer.rets[1].obj # signer.rets[2].obj
    /\ Reordered(signer.rets[1].arg, signer.rets[2].arg)
    /\ signer.rets[1].raw # signer.rets[2].raw

\* C13: pack_form leaves the caller's list as it was, so two calls on one
\* list object return the same signed list, each with exactly one sign field.
SignLeavesListAlone ==
    /\ signer.lists = signer.given
    /\ \A m, n \in DOMAIN signer.rets :
           signer.rets[m].obj = signer.rets[n].obj =>
               /\ signer.rets[m].value = signer.rets[n].value
               /\ Cardinality(SignFields(signer.rets[n].value)) = 1

Reading(c) == pc[c] \in {"hs_read", "msg_read"}

\* C14: a read() whose wait times out with no frame delivered raises the
\* timeout error and leaves no entry under its request id; a frame carrying
\* the id of a timed-out request is afterwards delivered to no request.
TimeoutDropsRequest ==
    [][/\ \A c \in Callers :
              (/\ Reading(c)
               /\ ~resp[loc[c].res].event
               /\ loc[c].res \in expired' \ expired)
                  => /\ loc'[c].read = "timeout"
                     /\ ids[loc[c].res] \notin DOMAIN wait_dict'
       /\ \A j \in DOMAIN resp \cap DOMAIN resp' :
              resp'[j] # resp[j] => resp[j].req_id \notin {ids[i] : i \in expired}
      ]_vars

\* the request id in the header of a frame
HeaderId(frame) == FromBytes(Slice(frame, 5, 9))

\* what task t may receive next
Receivable(t) == IF Live(t) THEN Inbound(tasks[t].ws) ELSE {}

\* C15: when a dispatcher receives a frame whose request id has no entry in
\* the wait table, the table and every pending request stay as they are and
\* the dispatcher stays in its loop.
UnmatchedFrameDropped ==
    [][\A t \in DOMAIN tasks :
           \A msg \in Receivable(t) :
               (/\ msg.isbytes
                /\ Len(msg.b) >= 9
                /\ HeaderId(msg.b) \notin DOMAIN wait_dict
                /\ DispatchMsg(t, msg))
                   => /\ wait_dict' = wait_dict
                      /\ resp' = resp
                      /\ tasks'[t].state = "live"
      ]_vars

\* the object caller c reads holds a status-0 reply to the handshake frame
\* of the connection c opened
OwnHandshakeAnswered(c) ==
    LET ws_res == resp[loc[c].res]
    IN  /\ ws_res.event
        /\ ReplyOk(ws_res.data.b)
        /\ AnswerTo(ws_res.data.b) = conns[loc[c].hsconn].wrote[1].obj

\* C16: a send_msg that found no usable socket writes its message frame only
\* on the connection it opened and only after the handshake on that
\* connection was answered with status 0; when the connection attempt or the
\* handshake fails it returns False and writes no frame.
ReconnectHandshakesFirst ==
    [][\A c \in Callers :
           /\ (pc[c] = "hs_read" /\ pc'[c] = "msg_read")
                  => /\ OwnHandshakeAnswered(c)
                     /\ websocket = loc[c].hsconn
           /\ (pc[c] \in {"connecting", "hs_read"} /\ pc'[c] = "idle")
                  => /\ loc'[c].ret = "False"
                     /\ \A k \in DOMAIN conns : conns'[k].wrote = conns[k].wrote
      ]_vars

CloseStopsCompletion ==
    [][/\ (~session_closed /\ session_closed') =>
              /\ _ws_dispatcher # 0 => tasks'[_ws_dispatcher].state # "live"
              /\ websocket # 0 => conns'[websocket].closed
       /\ session_closed =>
              /\ \A j \in DOMAIN resp \cap DOMAIN resp' : resp'[j].event = resp[j].event
              /\ \A c \in Callers :
                     (/\ Reading(c)
                      /\ ~resp[loc[c].res].event
                      /\ loc'[c].res # loc[c].res)
                         => loc'[c].read = "timeout"
      ]_vars

\* C19: the first WebsocketResponse gets the clock second of its creation as
\* request id and every later one the id of the one before it plus one.
RequestIdsCount ==
    /\ ids # <<>> => ids[1] = ClockStart
    /\ \A n \in DOMAIN ids : n > 1 => ids[n] = ids[n - 1] + 1

\* C20: once a frame has set the data of a request and signalled completion,
\* no later frame changes the data before read() returns it.
DataSetOnce ==
    [][\A j \in DOMAIN resp \cap DOMAIN resp' :
           resp[j].event => resp'[j].data = resp[j].data
      ]_vars

CodecPacked == codec.mode = "pack" /\ codec.pc # "pack"

Bit(n, k) == (n \div (2 ^ k)) % 2

BigEndian4(b, lo) == ((b[lo] * 256 + b[lo + 1]) * 256 + b[lo + 2]) * 256 + b[lo + 3]

\* C21: the output of _pack_ws_bytes starts with a 9-byte header: the flag
\* byte with bit 3 set, bit 6 = need_encrypt, bit 7 = need_gzip and no other
\* bit, then cmd and req_id as four big-endian bytes each; with both options
\* off the payload follows unchanged.
HeaderLayout ==
    CodecPacked =>
        LET b == codec.frame.b
        IN  /\ Len(b) >= 9
            /\ \A n \in 1..9 : b[n] \in 0..255
            /\ Bit(b[1], 3) = 1
            /\ Bit(b[1], 6) = BoolInt(codec.need_encrypt)
            /\ Bit(b[1], 7) = BoolInt(codec.need_gzip)
            /\ \A k \in {0, 1, 2, 4, 5} : Bit(b[1], k) = 0
            /\ BigEndian4(b, 2) = codec.cmd
            /\ BigEndian4(b, 6) = codec.req_id
            /\ (~codec.need_gzip /\ ~codec.need_encrypt) =>
                   b = <<8>> \o SubSeq(b, 2, 9) \o codec.payload

\* a command and a request id whose four bytes all differ were packed in
\* front of a payload with both options off
PlainFramePacked ==
    /\ CodecPacked
    /\ codec.cmd = 205001
    /\ codec.req_id = 1700000000
    /\ ~codec.need_gzip
    /\ ~codec.need_encrypt
    /\ Len(codec.payload) = MaxPayloadLen

\* C22: with need_encrypt the padding step appends N bytes of value N,
\* N = block_size - (len mod block_size), so 1 <= N <= block_size and a whole
\* block when len is a multiple of the block size; the encrypted payload has
\* a length that is a positive multiple of the block size.
PaddingRule ==
    /\ (codec.mode = "pad" /\ codec.pc # "pad") =>
           LET padN == Len(codec.padded) - Len(codec.payload)
           IN  /\ padN \in 1..BlockSize
               /\ padN = BlockSize - (Len(codec.payload) % BlockSize)
               /\ SubSeq(codec.padded, 1, Len(codec.payload)) = codec.payload
               /\ \A n \in (Len(codec.payload) + 1)..Len(codec.padded) :
                      codec.padded[n] = padN
    /\ (CodecPacked /\ codec.need_encrypt) =>
           /\ Len(codec.frame.b) > 9
           /\ (Len(codec.frame.b) - 9) % BlockSize = 0

\* a string of exactly one block was padded with a whole block more
WholeBlockPadded ==
    /\ codec.mode = "pad"
    /\ codec.pc # "pad"
    /\ Len(codec.payload) = BlockSize
    /\ Len(codec.padded) = 2 * BlockSize

\* the number of bytes at the end of d that equal its last byte
TrailingRun(d) ==
    CHOOSE k \in 0..Len(d) :
        /\ \A n \in (Len(d) - k + 1)..Len(d) : d[n] = d[Len(d)]
        /\ k = Len(d) \/ d[Len(d) - k] # d[Len(d)]

\* C23: from the decrypted bytes _unpack_ws_bytes removes the maximal
\* trailing run of bytes equal to the last byte, and nothing else.
StripsLastByteRun ==
    (codec.mode = "strip" /\ codec.pc = "done") =>
        codec.stripped = SubSeq(codec.padded, 1, Len(codec.padded) - TrailingRun(codec.padded))

\* C26: for every byte string p, the padding step of _pack_ws_bytes followed
\* by the padding-removal step of _unpack_ws_bytes gives p.
PaddingRoundTrip ==
    (codec.mode = "pad" /\ codec.pc = "done") => codec.stripped = codec.payload

\* the password carried by the handshake frame written on connection k
HandshakePassword(k) == Tail0(conns[k].wrote[1].frame, 9)[1] - 100

\* C24: once generated, the websocket password and the AES key derived from
\* it never change, whatever sends, failed handshakes, closures and
\* reconnections follow; every handshake carries that password.
PasswordFixed ==
    [][/\ _ws_password # 0 => _ws_password' = _ws_password
       /\ _ws_aes_chiper # -1 =>
              /\ _ws_aes_chiper' = _ws_aes_chiper
              /\ _ws_aes_chiper = DeriveKey(_ws_password)
       /\ \A k \in DOMAIN conns' : HandshakePassword(k)' = _ws_password'
      ]_vars

\* after a failed handshake and the loss of the connection a second
\* connection carries a handshake, and a message was encrypted
Reconnected ==
    /\ Len(conns) = 2
    /\ conns[1].hs = "failed"
    /\ conns[1].closed
    /\ _ws_aes_chiper # -1

FrameCmd(frame) == FromBytes(Slice(frame, 1, 5))

\* the frames with command cmd written on the connections cs
Written(cs, cmd) ==
    UNION {{<<k, n>> : n \in {x \in DOMAIN cs[k].wrote : FrameCmd(cs[k].wrote[x].frame) = cmd}} :
              k \in DOMAIN cs}

\* C25: one send_msg call writes at most one handshake frame (cmd 1001) and
\* at most one message frame (cmd 205001), also when the reply times out or
\* reports an error.  A call runs from leaving "idle" to coming back to it;
\* it goes through connecting, the handshake read and the message read in
\* that order without going back, writes a handshake frame only on entering
\* the handshake read and a message frame only on entering the message read.
NoRetry ==
    [][/\ Cardinality(Written(conns', 1001)) - Cardinality(Written(conns, 1001))
              = Cardinality({c \in Callers : pc[c] = "connecting" /\ pc'[c] = "hs_read"})
       /\ Cardinality(Written(conns', 205001)) - Cardinality(Written(conns, 205001))
              = Cardinality({c \in Callers : pc[c] # "msg_read" /\ pc'[c] = "msg_read"})
       /\ \A c \in Callers :
              /\ Cardinality({d \in Callers : pc'[d] # pc[d]}) <= 1
              /\ pc[c] = "idle" => pc'[c] \in {"idle", "connecting", "msg_read"}
              /\ pc[c] = "connecting" => pc'[c] \in {"connecting", "hs_read", "idle"}
              /\ pc[c] = "hs_read" => pc'[c] \in {"hs_read", "msg_read", "idle"}
              /\ pc[c] = "msg_read" => pc'[c] \in {"msg_read", "idle"}
      ]_vars

\* a call that wrote its handshake and its message has ended on a reply
\* timeout, and nothing more was written
TimedOutOnce ==
    /\ calls = 1
    /\ pc["a"] = "idle"
    /\ loc["a"].read = "timeout"
    /\ Cardinality(Written(conns, 1001)) = 1
    /\ Cardinality(Written(conns, 205001)) = 1

\* C27: every request whose read() has not finished and whose object its
\* caller still holds is in the wait table under its own id, and that id maps
\* to this very request; no creation, read or timeout of another request
\* removes or replaces the entry.
PendingKeepsItsEntry ==
    \A c \in Callers :
        Reading(c) => DictGet(wait_dict, resp[loc[c].res].req_id) = loc[c].res

\* C28: on each connection exactly one handshake frame (cmd 1001) is
\* written, and a caller waiting for its handshake reply wrote its handshake
\* frame on the connection it opened itself, also when two callers found the
\* socket unavailable and connect concurrently.
OneHandshakePerConnection ==
    /\ \A k \in DOMAIN conns :
           Cardinality({n \in DOMAIN conns[k].wrote :
                            FrameCmd(conns[k].wrote[n].frame) = 1001}) = 1
    /\ \A c \in Callers :
           pc[c] = "hs_read" =>
               \E n \in DOMAIN conns[loc[c].hsconn].wrote :
                   /\ conns[loc[c].hsconn].wrote[n].obj = loc[c].res
                   /\ FrameCmd(conns[loc[c].hsconn].wrote[n].frame) = 1001

\* two callers have each opened a connection and wait for their handshake replies
TwoHandshakesInFlight ==
    /\ Len(conns) = 2
    /\ pc["a"] = "hs_read"
    /\ pc["b"] = "hs_read"
    /\ loc["a"].hsconn # loc["b"].hsconn

\* C29: every handshake frame has flag byte 0x08 (no gzip, no encryption)
\* and cmd 1001, and its reply is read with a timeout of 5 seconds; the
\* handshake of a connection counts as successful only if the read returned
\* before the timeout with a status-0 reply, and a reply reaches a request
\* only from a received frame that carries the request's id.
HandshakeExchange ==
    [][/\ \A c \in Callers :
              /\ (pc[c] = "connecting" /\ pc'[c] = "hs_read")
                     => /\ loc'[c].timeout = 5
                        /\ \E w \in {conns'[loc'[c].hsconn].wrote[1]} :
                               /\ w.obj = loc'[c].res
                               /\ w.frame[1] = 8
                               /\ FrameCmd(w.frame) = 1001
                               /\ HeaderId(w.frame) = resp'[w.obj].req_id
              /\ (/\ pc[c] = "hs_read"
                  /\ conns[loc[c].hsconn].hs # "ok"
                  /\ conns'[loc[c].hsconn].hs = "ok")
                     => /\ loc'[c].read = "returned"
                        /\ resp[loc[c].res].event
                        /\ resp[loc[c].res].data.isbytes
                        /\ ParseOk(resp[loc[c].res].data.b)
                        /\ Errorno(resp[loc[c].res].data.b) = 0
       /\ \A j \in DOMAIN resp \cap DOMAIN resp' :
              resp'[j] # resp[j] =>
                  \E t \in DOMAIN tasks : \E msg \in Receivable(t) :
                      /\ msg.isbytes
                      /\ Len(msg.b) >= 9
                      /\ HeaderId(msg.b) = resp[j].req_id
                      /\ \E r \in {_unpack_ws_bytes(msg, ws_aes_chiper)} :
                             /\ r.raised = "none"
                             /\ resp'[j].data = Bytes(r.data)
      ]_vars

\* a handshake was answered with status 0 and the caller went on to send
HandshakeSucceeded ==
    \E c \in Callers :
        /\ pc[c] = "msg_read"
        /\ websocket # 0
        /\ conns[websocket].hs = "ok"
        /\ Len(conns[websocket].wrote) = 2

\* C30: in the legacy Browser, send_msg writes the encrypted message frame
\* only if the handshake get_websocket performed in this call succeeded; when
\* the connection cannot be opened or the handshake reply has a nonzero
\* status or times out, send_msg returns False and writes no message frame.
BrowserSendsAfterHandshake ==
    /\ \A k \in DOMAIN browser.conns : \A n \in DOMAIN browser.conns[k].wrote :
           FrameCmd(browser.conns[k].wrote[n].frame) = 205001
               => browser.conns[k].wrote[n].hs = "ok"
    /\ browser.hs = "failed" => ~browser.sent
    /\ (browser.pc = "idle" /\ browser.hs = "failed") => browser.ret = "False"

\* C31: send_ws_bytes enters the request in the wait table before it writes
\* the frame: at the step in which a frame appears on a socket the table maps
\* the frame's request id to the request of that frame, so a reply, which the
\* peer sends only to a written frame, is never processed before the entry
\* was made.
InsertedBeforeWritten ==
    [][\A k \in DOMAIN conns' : \A n \in DOMAIN conns'[k].wrote :
           (k \notin DOMAIN conns \/ n > Len(conns[k].wrote))
               => DictGet(wait_dict', HeaderId(conns'[k].wrote[n].frame))
                      = conns'[k].wrote[n].obj
      ]_vars

\* the dispatcher has handed a reply to a request that is still in the table
ReplyDelivered ==
    \E i \in DOMAIN resp :
        /\ resp[i].event
        /\ DictGet(wait_dict, resp[i].req_id) = i
        /\ \E k \in DOMAIN conns : \E n \in DOMAIN conns[k].wrote :
               conns[k].wrote[n].obj = i

\* C32: read() on a request whose first read() returned a payload returns
\* the same payload again and raises nothing.
ReadRepeatable ==
    (/\ codec.mode = "read"
     /\ Len(codec.reads) = 2
     /\ codec.reads[1].end = "returned")
        => codec.reads[2] = codec.reads[1]

\* C33: two different ordered field lists never give pack_form the same
\* concatenated "k=v..." string to hash.
RawStrIdentifiesList ==
    \A m, n \in DOMAIN signer.rets :
        signer.rets[m].arg # signer.rets[n].arg
            => signer.rets[m].raw # signer.rets[n].raw

\* caller c starts a call of op in this step
ApiCalled(c, op) ==
    /\ api'.calls = api.calls + 1
    /\ api'.loc[c].n = api'.calls
    /\ api'.loc[c].op = op

\* C34: get_tbs and get_self_info each call login() if and only if no login
\* has succeeded so far: none after a successful login, and again after a
\* failed one.
LazyLogin ==
    [][\A c \in Callers :
           (ApiCalled(c, "get_tbs") \/ ApiCalled(c, "get_self_info"))
               => (api'.logins = api.logins + 1 <=> ~api.succeeded)
      ]_vars

\* C35: fid_dict never holds 0; get_fid enters a name only after a reply
\* without error and with a nonzero fid, returns 0 on every failure and
\* leaves the cache as it was, and answers a cached name from the cache
\* without a request.
FidCacheSound ==
    [][/\ \A f \in DOMAIN api'.fid_dict : api'.fid_dict[f] # 0
       /\ \A c \in Callers :
              /\ (ApiCalled(c, "get_fid") /\ api'.loc[c].fname \in DOMAIN api.fid_dict)
                     => /\ api'.requests = api.requests
                        /\ api'.pc[c] = "idle"
                        /\ api'.loc[c].ret = api.fid_dict[api'.loc[c].fname]
                        /\ api'.fid_dict = api.fid_dict
              /\ (api.pc[c] = "fid" /\ api'.pc[c] = "idle")
                     => /\ api'.loc[c].ret = 0 => api'.fid_dict = api.fid_dict
                        /\ api'.loc[c].ret # 0 =>
                               api'.fid_dict = DictSet(api.fid_dict, api.loc[c].fname,
                                                       api'.loc[c].ret)
       /\ api'.fid_dict # api.fid_dict => \E c \in Callers : api.pc[c] = "fid"
      ]_vars

\* a name was looked up and cached, a lookup of another name failed, and the
\* cached name was then answered without a request
FidAnsweredFromCache ==
    \E c \in Callers :
        /\ api.loc[c].op = "get_fid"
        /\ api.pc[c] = "idle"
        /\ api.loc[c].ret = 7
        /\ api.calls = 3
        /\ api.requests = 2
        /\ DOMAIN api.fid_dict = {api.loc[c].fname}

\* C36: when the connection attempt of _create_websocket fails, the call
\* gives False, the websocket attribute is as it was before the call, no
\* dispatcher task was created, and no dispatcher is live afterwards.
FailedConnectLeavesNoDispatcher ==
    [][\A c \in Callers :
           (pc[c] = "connecting" /\ pc'[c] = "idle")
               => /\ loc'[c].ret = "False"
                  /\ websocket' = websocket
                  /\ tasks' = tasks
                  /\ \A t \in DOMAIN tasks' : tasks'[t].state # "live"
      ]_vars

====
